---- MODULE Spec2Model ----
(***************************************************************************)
(* Model of the scraper pipeline of src/index.ts: fetchPage,               *)
(* fetchFromWebOrCache, extractData, saveData and getData, running on the  *)
(* Node.js event loop.  A synchronous stretch of JavaScript (from a call   *)
(* or a promise continuation to the next await) is one action; every       *)
(* asynchronous I/O operation (HTTP request, readFile, writeFile) settles  *)
(* in an action of its own.  The file system, the network and the Node     *)
(* runtime's treatment of unhandled rejections are the environment.        *)
(*                                                                         *)
(* saveData uses the names resolve and mkdirSync, which src/index.ts does  *)
(* not import (it imports "* as path" and existsSync only); the README     *)
(* listing of saveData (src/unnamed/part_000:206-217) imports them from    *)
(* path and fs, and the model gives them that meaning.  The script is run  *)
(* from the project root (npm run scrape), so the working directory is     *)
(* __dirname.                                                              *)
(***************************************************************************)
EXTENDS Integers, Sequences, FiniteSets, TLC

\* ------------------------------------------------------------------ bounds
MaxCalls == 2      \* fetchFromWebOrCache activations in one run
MaxSaves == 2      \* saveData calls in one run

\* ------------------------------------------------------------ input values
\* URLs are JavaScript strings: sequences of UTF-16 code units.
UrlA == <<97>>                 \* "a"
HackerNewsUrl == <<104, 110>>  \* stands for 'https://news.ycombinator.com/'
URLs == {UrlA, HackerNewsUrl}

\* URLs that exercise the cache key: "b", "ab?" and two strings that are one
\* unpaired surrogate each ("\uD800", "\uD801").
UrlB == <<98>>
UrlQuery == <<97, 98, 63>>
UrlLone1 == <<55296>>
UrlLone2 == <<55297>>
KeyUrls == {UrlA, UrlB, UrlQuery, UrlLone1, UrlLone2}

\* A page body is a sequence of markup elements.
Link1 == [tag |-> "a", class |-> "titlelink", text |-> "t1", href |-> "h1"]
Link2 == [tag |-> "a", class |-> "titlelink", text |-> "t2", href |-> "h2"]
Other == [tag |-> "a", class |-> "morelink", text |-> "More", href |-> "h3"]
EmptyBody == << >>
Bodies == {EmptyBody, <<Link1>>, <<Link1, Other, Link2>>}

\* The causes of a failed HTTP request (axios rejects with an AxiosError).
FetchFailures == {"status", "timeout", "dns", "transport"}

Names == {"hacker-news-links"}
Rec1 == [title |-> "t1", url |-> "h1"]
RecordSeqs == {<< >>, <<Rec1>>}

\* JavaScript values: a string with its text, or undefined.
Str(text) == [kind |-> "string", text |-> text]
Undefined == [kind |-> "undefined", text |-> << >>]
\* What a call of fetchFromWebOrCache has not yet returned / never returns.
NoDocument == [kind |-> "undefined", nodes |-> << >>]
\* A path of the file system holds a file with its text, or nothing.
File(text) == [kind |-> "file", text |-> text]
NoFile == [kind |-> "ENOENT", text |-> << >>]

\* ------------------------------------------------------------- cache key
RECURSIVE Utf8(_)
\* Buffer.from(url): the UTF-8 bytes of a string of UTF-16 code units; a
\* lone surrogate becomes U+FFFD (EF BF BD).
Utf8(s) ==
  IF s = << >> THEN << >>
  ELSE LET c == Head(s) IN
    IF c < 128 THEN <<c>> \o Utf8(Tail(s))
    ELSE IF c < 2048 THEN <<192 + (c \div 64), 128 + (c % 64)>> \o Utf8(Tail(s))
    ELSE IF c >= 55296 /\ c <= 56319 /\ Len(s) >= 2
            /\ s[2] >= 56320 /\ s[2] <= 57343
      THEN LET cp == 65536 + (c - 55296) * 1024 + (s[2] - 56320) IN
           <<240 + (cp \div 262144), 128 + ((cp \div 4096) % 64),
             128 + ((cp \div 64) % 64), 128 + (cp % 64)>> \o Utf8(Tail(Tail(s)))
    ELSE IF c >= 55296 /\ c <= 57343 THEN <<239, 191, 189>> \o Utf8(Tail(s))
    ELSE <<224 + (c \div 4096), 128 + ((c \div 64) % 64), 128 + (c % 64)>>
           \o Utf8(Tail(s))

Pad == 64      \* '=' ; 0..63 index the alphabet A-Z a-z 0-9 + /
Slash == 63    \* '/' is the 64th letter of the base64 alphabet

RECURSIVE Base64(_)
RECURSIVE Base64LosingBits(_)
\* A base64 that drops the two low bits a lone last byte leaves over.
Base64LosingBits(b) ==
  IF b = << >> THEN << >>
  ELSE IF Len(b) = 1 THEN <<b[1] \div 4, 0, Pad, Pad>>
  ELSE IF Len(b) = 2 THEN
    <<b[1] \div 4, (b[1] % 4) * 16 + (b[2] \div 16), (b[2] % 16) * 4, Pad>>
  ELSE <<b[1] \div 4, (b[1] % 4) * 16 + (b[2] \div 16),
         (b[2] % 16) * 4 + (b[3] \div 64), b[3] % 64>>
         \o Base64LosingBits(SubSeq(b, 4, Len(b)))

\* buffer.toString('base64'): 3 bytes to 4 letters, '=' padded.
Base64(b) ==
  IF b = << >> THEN << >>
  ELSE IF Len(b) = 1 THEN <<b[1] \div 4, (b[1] % 4) * 16, Pad, Pad>>
  ELSE IF Len(b) = 2 THEN
    <<b[1] \div 4, (b[1] % 4) * 16 + (b[2] \div 16), (b[2] % 16) * 4, Pad>>
  ELSE <<b[1] \div 4, (b[1] % 4) * 16 + (b[2] \div 16),
         (b[2] % 16) * 4 + (b[3] \div 64), b[3] % 64>>
         \o Base64(SubSeq(b, 4, Len(b)))

CacheKey(url) == Base64(Utf8(url))

\* path.resolve(__dirname, `.cache/${key}.html`)
CachePath(url) == [dir |-> ".cache", name |-> CacheKey(url)]
\* resolve(__dirname, `data/${filename}.json`)
DataPath(filename) == [dir |-> "data", name |-> filename]

Paths ==
  {CachePath(u) : u \in URLs \cup KeyUrls} \cup {DataPath(n) : n \in Names}

\* --------------------------------------------------------- pure functions
\* new JSDOM(html).window.document; an undefined html is parsed as "".
JSDOM(html) ==
  [kind |-> "document",
   nodes |-> IF html.kind = "undefined" THEN << >> ELSE html.text]

\* JavaScript truthiness of a string | undefined value.
Truthy(v) == v.kind # "undefined" /\ v.text # << >>

RECURSIVE SelectTitleLinks(_)
RECURSIVE SelectAnchors(_)
\* The selector 'a' in place of 'a.titlelink': every anchor matches.
SelectAnchors(nodes) ==
  IF nodes = << >> THEN << >>
  ELSE IF Head(nodes).tag = "a"
    THEN <<Head(nodes)>> \o SelectAnchors(Tail(nodes))
    ELSE SelectAnchors(Tail(nodes))

\* document.querySelectorAll('a.titlelink'), in document order
SelectTitleLinks(nodes) ==
  IF nodes = << >> THEN << >>
  ELSE IF Head(nodes).tag = "a" /\ Head(nodes).class = "titlelink"
    THEN <<Head(nodes)>> \o SelectTitleLinks(Tail(nodes))
    ELSE SelectTitleLinks(Tail(nodes))

extractData(document) ==
  LET writingLinks == SelectTitleLinks(document.nodes) IN
  [i \in 1..Len(writingLinks) |->
     [title |-> writingLinks[i].text, url |-> writingLinks[i].href]]

RECURSIVE StringifyItems(_)
StringifyItems(data) ==
  IF data = << >> THEN << >>
  ELSE <<"{", Head(data).title, Head(data).url, "}">>
       \o (IF Tail(data) = << >> THEN << >> ELSE <<",">>)
       \o StringifyItems(Tail(data))

\* JSON.stringify(data) of an array of {title, url} records, as its text.
Stringify(data) == <<"[">> \o StringifyItems(data) \o <<"]">>

\* write(fd, data) at offset 0 of a file holding old: the bytes of data
\* replace the first Len(data) bytes, what lies beyond them stays.
Overlay(data, old) ==
  IF Len(old) > Len(data) THEN data \o SubSeq(old, Len(data) + 1, Len(old))
  ELSE data

\* ------------------------------------------------------------------ state
VARIABLES
  files,      \* the file system: path -> text of the file, or NoFile
  cacheDir,   \* whether the directory __dirname/.cache exists
  dataDir,    \* whether the directory __dirname/data exists
  calls,      \* the activations of fetchFromWebOrCache, in call order
  writes,     \* the writeFile operations started, in start order
  saves,      \* the calls of saveData, in call order
  getData,    \* the activation of getData
  log,        \* what console.log / console.error have printed
  unhandled,  \* promises rejected with no handler attached
  crashed     \* the Node process was ended by an unhandled rejection

vars == <<files, cacheDir, dataDir, calls, writes, saves, getData, log,
          unhandled, crashed>>

\* existsSync(resolve(__dirname, 'data'))
ExistsSyncDataDir == dataDir

\* existsSync(path)
ExistsSync(path) == files[path].kind = "file"

\* Whether the directory that is to hold path exists.  A '/' inside a cache
\* key names a subdirectory of .cache, and nothing creates one.
ParentDirExists(path) ==
  IF path.dir = ".cache"
    THEN cacheDir /\ \A k \in 1..Len(path.name) : path.name[k] # Slash
    ELSE dataDir

\* What the HTTP request can come to: a 2xx response with a body, or an
\* AxiosError.
Responses == [ok : {TRUE}, data : Bodies] \cup [ok : {FALSE}, error : FetchFailures]

ResponseKind(response) == IF response.ok THEN "2xx" ELSE response.error

\* fetchPage with the .catch handler left out: the rejection of axios.get
\* is the rejection of fetchPage.
fetchPageWithoutCatch(url, response) ==
  IF response.ok
    THEN [state |-> "fulfilled", value |-> Str(response.data), printed |-> {}]
    ELSE [state |-> "rejected", value |-> Undefined, printed |-> {}]

\* fetchPage(url) once axios.get(url) has settled with response: how the
\* returned promise settles and what the catch handler prints.
fetchPage(url, response) ==
  IF response.ok
    THEN [state |-> "fulfilled", value |-> Str(response.data), printed |-> {}]
    ELSE [state |-> "fulfilled", value |-> Undefined,
          printed |-> {[level |-> "error", msg |-> "There was an error with",
                        url |-> url],
                       [level |-> "error", msg |-> "error.toJSON()", url |-> url]}]

\* The condition with the test of ignoreCache left out.
UseCacheWheneverCached(url, ignoreCache) == ExistsSync(CachePath(url))

\* The condition of the if of fetchFromWebOrCache: read from the cache?
UseCache(url, ignoreCache) == ~ignoreCache /\ ExistsSync(CachePath(url))

\* The condition with the test of ignoreCache left out.
StoreInCacheAlways(ignoreCache, HTMLData) == Truthy(HTMLData)

\* The condition under which the fetched text is written to the cache.
StoreInCache(ignoreCache, HTMLData) == ~ignoreCache /\ Truthy(HTMLData)

\* The else branch with "await writeFile(...)": the call stays suspended on
\* the write when it has started one.
PcAwaitingWrite(storing) == IF storing THEN "writeFile" ELSE "returned"

\* Where the else branch of fetchFromWebOrCache stands once fetchPage has
\* settled: writeFile(...) is called without await, so the function runs on
\* to its return whether or not a write was started.
PcAfterFetch(storing) == "returned"

Returned(i) == calls[i].pc = "returned"
Settled(i) == calls[i].pc \in {"returned", "rejected"}

Init ==
  /\ cacheDir \in BOOLEAN
  /\ dataDir \in BOOLEAN
  /\ files = [p \in Paths |-> NoFile]
  /\ calls = << >>
  /\ writes = << >>
  /\ saves = << >>
  /\ getData = [pc |-> "idle", call |-> 0]
  /\ log = {}
  /\ unhandled = {}
  /\ crashed = FALSE

\* ------------------------------------------------------- fetchFromWebOrCache
\* The synchronous start of fetchFromWebOrCache(url, ignoreCache), up to its
\* first await: either readFile of the cache entry or fetchPage(url) is
\* started.
Begin(url, ignoreCache, by) ==
  LET hit == UseCache(url, ignoreCache) IN
  /\ calls' = Append(calls,
       [url |-> url, ignoreCache |-> ignoreCache, by |-> by,
        pc |-> IF hit THEN "readFile" ELSE "fetchPage",
        result |-> NoDocument,
        fetches |-> IF hit THEN 0 ELSE 1,
        cacheReads |-> IF hit THEN 1 ELSE 0,
        HTMLData |-> Undefined,
        response |-> "none",
        read |-> "none",
        entryAtStart |-> ExistsSync(CachePath(url)),
        after |-> {j \in 1..Len(calls) : Returned(j)}])
  /\ log' = log \cup
       {[level |-> "info", msg |-> "Getting data for", url |-> url]} \cup
       (IF hit
          THEN {[level |-> "info", msg |-> "I read from cache", url |-> url]}
          ELSE {[level |-> "info", msg |-> "I fetched fresh", url |-> url],
                [level |-> "info", msg |-> "Now fetching", url |-> url]})

\* A caller other than getData calls the exported fetchFromWebOrCache.
CallFetchFromWebOrCache(url, ignoreCache) ==
  /\ ~crashed
  /\ Len(calls) < MaxCalls
  /\ Begin(url, ignoreCache, "caller")
  /\ UNCHANGED <<files, cacheDir, dataDir, writes, saves, getData, unhandled,
                 crashed>>

\* await readFile(...) settles: the call returns the parsed cache entry, or
\* the rejection of readFile rejects the call.
ReadFileSettles(i, ok) ==
  /\ ~crashed
  /\ i \in 1..Len(calls)
  /\ calls[i].pc = "readFile"
  /\ LET file == files[CachePath(calls[i].url)]
         HTMLData == Str(file.text)
     IN
     IF ok /\ file.kind = "file"
       THEN calls' = [calls EXCEPT ![i].pc = "returned",
                                   ![i].read = "ok",
                                   ![i].HTMLData = HTMLData,
                                   ![i].result = JSDOM(HTMLData)]
       ELSE calls' = [calls EXCEPT ![i].pc = "rejected",
                                   ![i].read = "error"]
  /\ UNCHANGED <<files, cacheDir, dataDir, writes, saves, getData, log,
                 unhandled, crashed>>

\* await fetchPage(url) settles and the else branch runs to its return: the
\* cache write is started and not awaited.
FetchPageSettles(i, response) ==
  /\ ~crashed
  /\ i \in 1..Len(calls)
  /\ calls[i].pc = "fetchPage"
  /\ LET c == calls[i]
         p == fetchPage(c.url, response)
         HTMLData == p.value
     IN
     /\ log' = log \cup p.printed
     /\ IF p.state = "rejected"
          THEN /\ calls' = [calls EXCEPT ![i].pc = "rejected",
                                         ![i].response = ResponseKind(response)]
               /\ writes' = writes
          ELSE /\ calls' = [calls EXCEPT
                    ![i].pc = PcAfterFetch(StoreInCache(c.ignoreCache, HTMLData)),
                    ![i].response = ResponseKind(response),
                    ![i].HTMLData = HTMLData,
                    ![i].result = JSDOM(HTMLData)]
               /\ writes' = IF StoreInCache(c.ignoreCache, HTMLData)
                    THEN Append(writes,
                           [path |-> CachePath(c.url), data |-> HTMLData.text,
                            phase |-> "open", fn |-> "fetchFromWebOrCache",
                            id |-> i])
                    ELSE writes
  /\ UNCHANGED <<files, cacheDir, dataDir, saves, getData, unhandled, crashed>>

\* ------------------------------------------------------------------ writeFile
\* writeFile opens the file with flag 'w': the file is created or truncated,
\* or the open fails and the promise rejects; nobody holds the promise.
WriteOpens(w, ok) ==
  /\ ~crashed
  /\ w \in 1..Len(writes)
  /\ writes[w].phase = "open"
  /\ IF ok /\ ParentDirExists(writes[w].path)
       THEN /\ files' = [files EXCEPT ![writes[w].path] = File(<< >>)]
            /\ writes' = [writes EXCEPT ![w].phase = "write"]
            /\ unhandled' = unhandled
       ELSE /\ files' = files
            /\ writes' = [writes EXCEPT ![w].phase = "failed"]
            /\ unhandled' = unhandled \cup {writes[w].fn}
  /\ UNCHANGED <<cacheDir, dataDir, calls, saves, getData, log, crashed>>

\* writeFile writes its data from offset 0 of its own descriptor and closes,
\* or the write fails (disk full) and the promise rejects.
WriteCompletes(w, ok) ==
  /\ ~crashed
  /\ w \in 1..Len(writes)
  /\ writes[w].phase = "write"
  /\ IF ok
       THEN /\ files' = [files EXCEPT
                 ![writes[w].path] =
                     File(Overlay(writes[w].data, files[writes[w].path].text))]
            /\ writes' = [writes EXCEPT ![w].phase = "done"]
            /\ unhandled' = unhandled
       ELSE /\ files' = files
            /\ writes' = [writes EXCEPT ![w].phase = "failed"]
            /\ unhandled' = unhandled \cup {writes[w].fn}
  /\ UNCHANGED <<cacheDir, dataDir, calls, saves, getData, log, crashed>>

\* ------------------------------------------------------------------- saveData
\* saveData(filename, data): mkdirSync when the data directory is missing
\* (throwing when it fails), then writeFile started and not awaited.
SaveDataBody(filename, data, by, mkdirOk) ==
  IF ~ExistsSyncDataDir /\ ~mkdirOk
    THEN /\ saves' = Append(saves, [filename |-> filename, data |-> data,
                                    by |-> by, threw |-> TRUE, write |-> 0])
         /\ UNCHANGED <<dataDir, writes>>
    ELSE /\ dataDir' = TRUE
         /\ writes' = Append(writes,
              [path |-> DataPath(filename), data |-> Stringify(data),
               phase |-> "open", fn |-> "saveData", id |-> Len(saves) + 1])
         /\ saves' = Append(saves, [filename |-> filename, data |-> data,
                                    by |-> by, threw |-> FALSE,
                                    write |-> Len(writes) + 1])

\* Another caller than getData calls saveData.
CallSaveData(filename, data, mkdirOk) ==
  /\ ~crashed
  /\ Len(saves) < MaxSaves
  /\ SaveDataBody(filename, data, "caller", mkdirOk)
  /\ UNCHANGED <<files, cacheDir, calls, getData, log, unhandled, crashed>>

\* -------------------------------------------------------------------- getData
\* getData() is called at the top level of the script: it calls
\* fetchFromWebOrCache('https://news.ycombinator.com/', true) and awaits it.
GetDataStarts ==
  /\ ~crashed
  /\ getData.pc = "idle"
  /\ Len(calls) < MaxCalls
  /\ Begin(HackerNewsUrl, TRUE, "getData")
  /\ getData' = [pc |-> "awaitDocument", call |-> Len(calls) + 1]
  /\ UNCHANGED <<files, cacheDir, dataDir, writes, saves, unhandled, crashed>>

\* The awaited call has settled: extractData, saveData, and getData's promise
\* is fulfilled; a rejection of the call or a throw of saveData rejects it,
\* and nothing handles the promise of getData().
GetDataResumes(mkdirOk) ==
  /\ ~crashed
  /\ getData.pc = "awaitDocument"
  /\ Settled(getData.call)
  /\ IF calls[getData.call].pc = "rejected"
       THEN /\ getData' = [getData EXCEPT !.pc = "rejected"]
            /\ unhandled' = unhandled \cup {"getData"}
            /\ UNCHANGED <<dataDir, writes, saves>>
       ELSE LET document == calls[getData.call].result
                data == extractData(document)
            IN
            /\ SaveDataBody("hacker-news-links", data, "getData", mkdirOk)
            /\ IF ~ExistsSyncDataDir /\ ~mkdirOk
                 THEN /\ getData' = [getData EXCEPT !.pc = "rejected"]
                      /\ unhandled' = unhandled \cup {"getData"}
                 ELSE /\ getData' = [getData EXCEPT !.pc = "fulfilled"]
                      /\ unhandled' = unhandled
  /\ UNCHANGED <<files, cacheDir, calls, log, crashed>>

\* ------------------------------------------------------------ Node runtime
\* A rejection nobody handles: a Node that runs with
\* --unhandled-rejections=throw (the default from Node 15 on) ends the
\* process with exit code 1, an older one prints a warning and goes on.
UnhandledRejectionEndsProcess ==
  /\ ~crashed
  /\ unhandled # {}
  /\ crashed' = TRUE
  /\ UNCHANGED <<files, cacheDir, dataDir, calls, writes, saves, getData, log,
                 unhandled>>

Next ==
  \/ \E u \in URLs, ic \in BOOLEAN : CallFetchFromWebOrCache(u, ic)
  \/ \E i \in 1..Len(calls), ok \in BOOLEAN : ReadFileSettles(i, ok)
  \/ \E i \in 1..Len(calls), r \in Responses : FetchPageSettles(i, r)
  \/ \E w \in 1..Len(writes), ok \in BOOLEAN : WriteOpens(w, ok)
  \/ \E w \in 1..Len(writes), ok \in BOOLEAN : WriteCompletes(w, ok)
  \/ \E n \in Names, d \in RecordSeqs, ok \in BOOLEAN : CallSaveData(n, d, ok)
  \/ GetDataStarts
  \/ \E ok \in BOOLEAN : GetDataResumes(ok)
  \/ UnhandledRejectionEndsProcess

\* The whole program: getData and any other caller of the two functions.
Spec == Init /\ [][Next]_vars

\* Callers of the exported fetchFromWebOrCache alone: the page source
\* resolver with its cache, the network and the runtime.
ResolverNext ==
  \/ \E u \in URLs, ic \in BOOLEAN : CallFetchFromWebOrCache(u, ic)
  \/ \E i \in 1..Len(calls), ok \in BOOLEAN : ReadFileSettles(i, ok)
  \/ \E i \in 1..Len(calls), r \in Responses : FetchPageSettles(i, r)
  \/ \E w \in 1..Len(writes), ok \in BOOLEAN : WriteOpens(w, ok)
  \/ \E w \in 1..Len(writes), ok \in BOOLEAN : WriteCompletes(w, ok)
  \/ UnhandledRejectionEndsProcess

ResolverSpec == Init /\ [][ResolverNext]_vars

\* The script as it is run: getData, with earlier or later calls of saveData
\* on the same artifact.
PipelineNext ==
  \/ GetDataStarts
  \/ \E i \in 1..Len(calls), r \in Responses : FetchPageSettles(i, r)
  \/ \E ok \in BOOLEAN : GetDataResumes(ok)
  \/ \E n \in Names, d \in RecordSeqs, ok \in BOOLEAN : CallSaveData(n, d, ok)
  \/ \E w \in 1..Len(writes), ok \in BOOLEAN : WriteOpens(w, ok)
  \/ \E w \in 1..Len(writes), ok \in BOOLEAN : WriteCompletes(w, ok)
  \/ UnhandledRejectionEndsProcess

PipelineSpec == Init /\ [][PipelineNext]_vars

\* ------------------------------------------------ the pipeline with caching
\* The pipeline of getData run on a cacheable page: the body of getData with
\* ignoreCache=false, called again once the earlier run has completed.
RunCalls == {i \in 1..Len(calls) : calls[i].by = "run"}
RunSaves == {k \in 1..Len(saves) : saves[k].by = "run"}
ReturnedRuns == {i \in RunCalls : Returned(i)}

\* const document = await fetchFromWebOrCache(url, false)
RunStarts(url) ==
  /\ ~crashed
  /\ Len(calls) < MaxCalls
  /\ \A i \in RunCalls : Settled(i)
  /\ Cardinality(RunSaves) = Cardinality(ReturnedRuns)
  /\ Begin(url, FALSE, "run")
  /\ UNCHANGED <<files, cacheDir, dataDir, writes, saves, getData, unhandled,
                 crashed>>

\* const data = extractData(document); saveData('hacker-news-links', data)
RunResumes(mkdirOk) ==
  /\ ~crashed
  /\ Cardinality(RunSaves) < Cardinality(ReturnedRuns)
  /\ LET i == CHOOSE r \in ReturnedRuns : \A q \in ReturnedRuns : q <= r
         document == calls[i].result
         data == extractData(document)
     IN SaveDataBody("hacker-news-links", data, "run", mkdirOk)
  /\ UNCHANGED <<files, cacheDir, calls, getData, log, unhandled, crashed>>

RerunNext ==
  \/ \E u \in URLs : RunStarts(u)
  \/ \E i \in 1..Len(calls), ok \in BOOLEAN : ReadFileSettles(i, ok)
  \/ \E i \in 1..Len(calls), r \in Responses : FetchPageSettles(i, r)
  \/ \E ok \in BOOLEAN : RunResumes(ok)
  \/ \E w \in 1..Len(writes), ok \in BOOLEAN : WriteOpens(w, ok)
  \/ \E w \in 1..Len(writes), ok \in BOOLEAN : WriteCompletes(w, ok)
  \/ UnhandledRejectionEndsProcess

RerunSpec == Init /\ [][RerunNext]_vars

\* A caller that scrapes one page after the other with caching on:
\* await fetchFromWebOrCache(url) is reached when the calls before it have
\* settled (their cache writes may still be under way).
AwaitedCall(url) ==
  /\ \A i \in 1..Len(calls) : Settled(i)
  /\ CallFetchFromWebOrCache(url, FALSE)

\* Such a caller, over the URLs that exercise the cache key.
KeyNext ==
  \/ \E u \in KeyUrls : AwaitedCall(u)
  \/ \E i \in 1..Len(calls), ok \in BOOLEAN : ReadFileSettles(i, ok)
  \/ \E i \in 1..Len(calls), r \in Responses : FetchPageSettles(i, r)
  \/ \E w \in 1..Len(writes), ok \in BOOLEAN : WriteOpens(w, ok)
  \/ \E w \in 1..Len(writes), ok \in BOOLEAN : WriteCompletes(w, ok)
  \/ UnhandledRejectionEndsProcess

KeySpec == Init /\ [][KeyNext]_vars

TypeOK ==
  /\ cacheDir \in BOOLEAN /\ dataDir \in BOOLEAN /\ crashed \in BOOLEAN
  /\ Len(calls) <= MaxCalls
  /\ Len(saves) <= MaxSaves + 1

\* ============================================================== the claims
ErrorLogged(url) ==
  \E e \in log : e.level = "error" /\ e.url = url

\* C1: two successive calls fetchFromWebOrCache(U) with ignoreCache=false,
\* the first starting with no cache entry for U and fetching successfully,
\* the second started after the first has returned, perform exactly one
\* network fetch in total and return the same content.
C1_TwoCallsOneFetch ==
  \A i \in 1..Len(calls), j \in 1..Len(calls) :
    ( /\ i \in calls[j].after
      /\ calls[i].url = calls[j].url
      /\ ~calls[i].ignoreCache /\ ~calls[j].ignoreCache
      /\ ~calls[i].entryAtStart
      /\ calls[i].response = "2xx"
      /\ Settled(j) )
    => /\ calls[i].fetches + calls[j].fetches = 1
       /\ Returned(j)
       /\ calls[j].result = calls[i].result

\* C2: a call fetchFromWebOrCache(U, ignoreCache=true) performs a network
\* fetch and never reads the cache entry of U, whether or not the entry
\* exists.
C2_IgnoreCacheFetchesAndNeverReads ==
  \A i \in 1..Len(calls) :
    calls[i].ignoreCache =>
      /\ calls[i].fetches = 1
      /\ calls[i].cacheReads = 0
      /\ calls[i].pc # "readFile"
      /\ calls[i].read = "none"
      /\ Returned(i) => calls[i].response # "none"

\* C2's case: a call with ignoreCache=true that started while the cache entry
\* of its URL existed has returned.
C2_Witness ==
  \E i \in 1..Len(calls) :
    calls[i].ignoreCache /\ calls[i].entryAtStart /\ Returned(i)

\* C3: when the network fetch of U fails, fetchFromWebOrCache returns Absent
\* (no content, no document) and leaves the cache as it was: no entry is
\* created or overwritten and no cache write is started.
C3_FetchFailureReturnsAbsent ==
  [][\A i \in 1..Len(calls) :
       (calls[i].pc = "fetchPage" /\ calls'[i].response \in FetchFailures)
       => /\ calls'[i].result = NoDocument
          /\ files' = files
          /\ writes' = writes]_vars

\* C4: at rest (no call in progress, no write in progress) a cache entry for
\* U exists if and only if some earlier call fetchFromWebOrCache(U) with
\* ignoreCache=false obtained a successful fetch of U, whatever the body.  A
\* state at rest is a reachable state, so a violation at rest is a violation
\* of the claim made for every reachable state.
C4_EntryIffSuccessfulFetch ==
  ( /\ \A i \in 1..Len(calls) : Settled(i)
    /\ \A w \in 1..Len(writes) : writes[w].phase \in {"done", "failed"} )
  => \A u \in URLs :
       ExistsSync(CachePath(u)) <=>
         \E i \in 1..Len(calls) :
           /\ calls[i].url = u
           /\ ~calls[i].ignoreCache
           /\ calls[i].response = "2xx"

\* C5: for every failure of the HTTP request (non-2xx status, timeout, DNS
\* failure, transport error) fetchPage prints a diagnostic and completes with
\* undefined: the await of fetchPage never throws.
C5_FetchPageNeverRejects ==
  \A i \in 1..Len(calls) :
    calls[i].response \in FetchFailures =>
      /\ calls[i].pc = "returned"
      /\ calls[i].HTMLData = Undefined
      /\ ErrorLogged(calls[i].url)

\* C5's case: the request of some call has failed.
C5_Witness ==
  \E i \in 1..Len(calls) :
    calls[i].response \in FetchFailures /\ Settled(i)

\* C6: when the cache write started by fetchFromWebOrCache(U, false) fails,
\* the failure is logged and contained: the call has returned the fetched
\* content, no unhandled rejection escapes and the run is not ended by it.
C6_CacheWriteFailureContained ==
  \A w \in 1..Len(writes) :
    (writes[w].fn = "fetchFromWebOrCache" /\ writes[w].phase = "failed")
    => /\ Returned(writes[w].id)
       /\ calls[writes[w].id].result = JSDOM(Str(writes[w].data))
       /\ "fetchFromWebOrCache" \notin unhandled
       /\ ~crashed
       /\ ErrorLogged(calls[writes[w].id].url)

\* C7: when writing the output artifact fails, saveData surfaces the failure
\* to its caller, and getData completes with a failure (its promise is
\* rejected) rather than completing successfully.
C7_ArtifactWriteFailureSurfaced ==
  \A k \in 1..Len(saves) :
    (saves[k].write # 0 /\ writes[saves[k].write].phase = "failed")
    => /\ saves[k].threw
       /\ saves[k].by = "getData" => getData.pc = "rejected"

\* C8: when the fetch of getData's URL fails, the pipeline short-circuits: no
\* document is parsed, extractData and saveData are not run by getData and
\* no write of the artifact is started.
C8_FetchFailureShortCircuits ==
  (getData.call # 0 /\ calls[getData.call].response \in FetchFailures)
  => /\ calls[getData.call].result = NoDocument
     /\ \A k \in 1..Len(saves) : saves[k].by # "getData"

\* C9: when ignoreCache is false, the cache entry exists and reading it
\* fails, fetchFromWebOrCache does not fail the call: it falls back to a
\* fresh network fetch of U and returns that result.
C9_ReadFailureFallsBackToFetch ==
  \A i \in 1..Len(calls) :
    calls[i].read = "error"
    => /\ calls[i].pc # "rejected"
       /\ calls[i].fetches = 1
       /\ Returned(i) => calls[i].response # "none"

SavesOf(n) == {k \in 1..Len(saves) : saves[k].filename = n /\ ~saves[k].threw}

\* C10: after saveData(n, r1) followed by saveData(n, r2), once all writes
\* of the artifact have finished, data/n.json holds exactly the
\* serialization of r2, the data of the last saveData(n, ...).
C10_LaterSaveWins ==
  \A n \in Names :
    ( /\ SavesOf(n) # {}
      /\ \A k \in SavesOf(n) : writes[saves[k].write].phase = "done" )
    => LET last == CHOOSE k \in SavesOf(n) : \A m \in SavesOf(n) : m <= k IN
       files[DataPath(n)] = File(Stringify(saves[last].data))


\* C11: a call fetchFromWebOrCache(U, ignoreCache=false) whose fetch succeeds
\* creates the cache directory when it is missing, before its first write:
\* whenever a cache write has been started, the directory .cache exists.
C11_CacheDirCreatedBeforeWrite ==
  \A w \in 1..Len(writes) :
    writes[w].fn = "fetchFromWebOrCache" => cacheDir


\* The call of saveData made by the run whose call of fetchFromWebOrCache is i.
SaveOfRun(i) ==
  CHOOSE k \in RunSaves :
    Cardinality({m \in RunSaves : m <= k}) =
      Cardinality({h \in ReturnedRuns : h <= i})

RunSaved(i) ==
  i \in ReturnedRuns
  /\ Cardinality({h \in ReturnedRuns : h <= i}) <= Cardinality(RunSaves)

\* C12: the pipeline (resolve with ignoreCache=false, extract, save) run
\* twice in succession against the same static page writes the same
\* artifact: the second run saves the data the first run saved, and once the
\* writes of the artifact have finished the artifact holds its serialization.
C12_RerunSameArtifact ==
  \A i \in RunCalls, j \in RunCalls :
    ( /\ i < j
      /\ calls[i].url = calls[j].url
      /\ calls[i].response = "2xx"
      /\ calls[j].response \in {"none", "2xx"}
      /\ calls[j].response = "2xx" => calls[j].HTMLData = calls[i].HTMLData
      /\ RunSaved(i) /\ RunSaved(j)
      /\ ~saves[SaveOfRun(i)].threw /\ ~saves[SaveOfRun(j)].threw )
    => /\ saves[SaveOfRun(j)].data = saves[SaveOfRun(i)].data
       /\ (\A k \in RunSaves : ~saves[k].threw
                                 /\ writes[saves[k].write].phase = "done")
          => files[DataPath(saves[SaveOfRun(i)].filename)]
               = File(Stringify(saves[SaveOfRun(i)].data))


\* C13: for every URL string the cache key is safe as a single filename
\* segment: it contains no path separator, so the cache entry is a file
\* directly under the cache root.
C13_KeyHasNoPathSeparator ==
  \A i \in 1..Len(calls) :
    LET key == CacheKey(calls[i].url) IN
    \A k \in 1..Len(key) : key[k] # Slash

\* A string of UTF-16 code units with no unpaired surrogate.
WellFormed(url) ==
  \A k \in 1..Len(url) :
    /\ (url[k] >= 55296 /\ url[k] <= 56319)
         => (k < Len(url) /\ url[k + 1] >= 56320 /\ url[k + 1] <= 57343)
    /\ (url[k] >= 56320 /\ url[k] <= 57343)
         => (k > 1 /\ url[k - 1] >= 55296 /\ url[k - 1] <= 56319)

\* C14 as stated: any two distinct URL strings map to distinct cache keys,
\* and the write of a call uses the key of the call's URL.
C14_KeyInjective ==
  /\ \A i \in 1..Len(calls), j \in 1..Len(calls) :
       calls[i].url # calls[j].url
         => CachePath(calls[i].url) # CachePath(calls[j].url)
  /\ \A w \in 1..Len(writes) :
       writes[w].fn = "fetchFromWebOrCache"
         => writes[w].path = CachePath(calls[writes[w].id].url)

\* C14 as amended: any two distinct URL strings without unpaired surrogates
\* map to distinct cache keys, and the write of a call uses the key of the
\* call's URL.
C14_KeyInjectiveOnWellFormed ==
  /\ \A i \in 1..Len(calls), j \in 1..Len(calls) :
       ( /\ calls[i].url # calls[j].url
         /\ WellFormed(calls[i].url) /\ WellFormed(calls[j].url) )
         => CachePath(calls[i].url) # CachePath(calls[j].url)
  /\ \A w \in 1..Len(writes) :
       writes[w].fn = "fetchFromWebOrCache"
         => writes[w].path = CachePath(calls[writes[w].id].url)

\* C14's case: two calls with distinct well-formed URLs have each written
\* their cache entry, and the two entries are there side by side.
C14_Witness ==
  \E i \in 1..Len(calls), j \in 1..Len(calls) :
    /\ calls[i].url # calls[j].url
    /\ WellFormed(calls[i].url) /\ WellFormed(calls[j].url)
    /\ \E w \in 1..Len(writes), x \in 1..Len(writes) :
         /\ writes[w].id = i /\ writes[w].phase = "done"
         /\ writes[x].id = j /\ writes[x].phase = "done"
         /\ files[CachePath(calls[i].url)] = File(writes[w].data)
         /\ files[CachePath(calls[j].url)] = File(writes[x].data)


\* C15: extractData returns exactly one record per anchor of class titlelink,
\* in document order, with title the anchor's text and url its href; a
\* document with no such anchor yields the empty sequence.
C15_OneRecordPerTitleLink ==
  \A k \in 1..Len(saves) :
    saves[k].by = "getData" =>
      LET nodes == calls[getData.call].result.nodes
          links == {p \in 1..Len(nodes) :
                      nodes[p].tag = "a" /\ nodes[p].class = "titlelink"}
          data == saves[k].data
      IN /\ Len(data) = Cardinality(links)
         /\ \A p \in links :
              data[Cardinality({q \in links : q <= p})]
                = [title |-> nodes[p].text, url |-> nodes[p].href]

\* C15's case: getData has extracted two records from a document of three
\* elements, one of them not matched by the selector.
C15_Witness ==
  \E k \in 1..Len(saves) :
    /\ saves[k].by = "getData"
    /\ Len(calls[getData.call].result.nodes) = 3
    /\ Len(saves[k].data) = 2


\* C16: no call returns a partially written cache entry as a cache hit: the
\* text a call has read from the cache is the complete body that some call
\* wrote for that entry.
C16_NoPartialEntryServed ==
  \A i \in 1..Len(calls) :
    calls[i].read = "ok" =>
      \E w \in 1..Len(writes) :
        /\ writes[w].path = CachePath(calls[i].url)
        /\ writes[w].data = calls[i].HTMLData.text

\* C17: once a cache entry for U has been created (a write of it has
\* finished and the entry holds the body written), its content never changes
\* under any step of any call, calls made while an earlier write of U is
\* pending included.
C17_EntryNeverChanges ==
  [][\A u \in URLs :
       (\E w \in 1..Len(writes) :
          /\ writes[w].path = CachePath(u)
          /\ writes[w].phase = "done"
          /\ files[CachePath(u)] = File(writes[w].data))
       => files'[CachePath(u)] = files[CachePath(u)]]_vars

\* C18: fetchFromWebOrCache(U, ignoreCache=true) leaves the cache unchanged
\* in every outcome: no step of such a call changes a file or starts a
\* write, so no write of the cache ever belongs to such a call.
C18_IgnoreCacheLeavesCacheAlone ==
  [][ /\ \A i \in 1..Len(calls') :
           (calls'[i].ignoreCache /\ (i > Len(calls) \/ calls'[i] # calls[i]))
           => (files' = files /\ writes' = writes)
      /\ \A w \in 1..Len(writes') :
           writes'[w].fn = "fetchFromWebOrCache"
             => ~calls'[writes'[w].id].ignoreCache ]_vars

\* C18's case: a call with ignoreCache=true has fetched a non-empty body and
\* returned, and another one has failed to fetch and returned.
C18_Witness ==
  /\ \E i \in 1..Len(calls) :
       /\ calls[i].ignoreCache /\ Returned(i)
       /\ calls[i].response = "2xx" /\ calls[i].HTMLData.text # << >>
  /\ \E i \in 1..Len(calls) :
       /\ calls[i].ignoreCache /\ Returned(i)
       /\ calls[i].response \in FetchFailures


\* C19: on a cache miss with a successful fetch, fetchFromWebOrCache returns
\* the fetched content without waiting for the cache write: in whatever phase
\* a cache write is (not yet opened, opened, finished or failed), the call
\* that started it has already returned the fetched content.
C19_ReturnDoesNotWaitForWrite ==
  \A w \in 1..Len(writes) :
    writes[w].fn = "fetchFromWebOrCache" =>
      /\ Returned(writes[w].id)
      /\ calls[writes[w].id].result = JSDOM(Str(writes[w].data))

\* C19's case: a call has returned while its cache write has not even opened
\* the file, and another has returned and its write has failed.
C19_Witness ==
  /\ \E w \in 1..Len(writes) :
       /\ writes[w].fn = "fetchFromWebOrCache"
       /\ writes[w].phase = "open"
       /\ Returned(writes[w].id)
  /\ \E w \in 1..Len(writes) :
       /\ writes[w].fn = "fetchFromWebOrCache"
       /\ writes[w].phase = "failed"
       /\ Returned(writes[w].id)

====
